---- MODULE Spec2Model ----
(***************************************************************************)
(* Model of litellm/llms/azure/completion/handler.py: the Azure text        *)
(* completion adapter (class AzureTextCompletion).                          *)
(*                                                                          *)
(* A run is a sequence of calls to completion().  Each call walks through   *)
(* the statements of completion() and of the path it dispatches to          *)
(* (the inline synchronous path, streaming(), acompletion(),                *)
(* async_streaming()).  Every call into an external collaborator            *)
(* (prompt_factory, the client-parameter factory, the vendor client's       *)
(* constructor and create(), the logging sink) either returns or raises     *)
(* one of the exceptions of Exceptions.  The caller-supplied client handle  *)
(* is shared by all calls of a run; its _custom_query is the only state     *)
(* that survives a call.                                                    *)
(***************************************************************************)
EXTENDS Naturals, Sequences, FiniteSets

\* Number of calls to completion() in a run.
MaxCalls == 2

VARIABLES
    pc,             \* position of the current call
    req,            \* arguments of the current call to completion()
    max_retries,    \* local max_retries of completion()
    api_base,       \* local api_base of completion() (rewritten on the gateway path)
    azure_client_params, \* client parameters handed to the vendor constructor
    client,         \* local client / azure_client: the vendor client in use
    data,           \* the request payload
    events,         \* what the call has done so far: log events, network calls, results
    raised,         \* the exception raised inside the call, before any handler ran
    outcome,        \* what the caller observes when the call has ended
    custom_query,   \* the shared handle's _custom_query
    calls,          \* calls started so far
    initQuery,      \* history: custom_query["api-version"] before the first call
    firstVersion,   \* history: api_version of the first call dispatched to a path with the handle and an explicit api_version
    firstReached    \* history: api_version of the first such call that reached the client-reuse branch

vars == <<pc, req, max_retries, api_base, azure_client_params, client, data,
          events, raised, outcome, custom_query, calls, initQuery,
          firstVersion, firstReached>>

callVars == <<req, max_retries, api_base, azure_client_params, data>>
histVars == <<initQuery, firstVersion, firstReached>>

-----------------------------------------------------------------------------
(* Values *)

\* Python's None, for every argument that may be None.
None == "None"

Models == {None, "gpt-3"}
Messages == {None, "msgs"}

\* optional_params["stream"]: key absent, False, True, or a truthy value that
\* is not the boolean True (1, "true", ...).
StreamValues == {"absent", "False", "True", "truthy"}

\* optional_params["max_retries"]: key absent, an int, or a str such as "two".
RetryValues == {"absent", "int:3", "str:two"}

\* isinstance(max_retries, int)
IsInt(v) == v \in {"int:2", "int:3"}

\* Endpoints, as sequences of URL pieces; "gateway.ai.cloudflare.com" is one piece.
GatewayHost == "gateway.ai.cloudflare.com"
ApiBases ==
    { <<"https://", "res.openai.azure.com">>,
      <<"https://", GatewayHost, "/", "acct">>,
      <<"https://", GatewayHost, "/", "acct", "/">> }

ApiVersions == {None, "2024-01-01", "2024-02-01"}

\* The client argument: None or the caller's shared handle.
Clients == {None, "handle"}

\* The handle's _custom_query: a dict without "api-version", a dict holding
\* one, or not a dict at all.
Absent == "absent"
NotADict == "not-a-dict"
InitialQueries == {Absent, "2023-06-01", NotADict}

Requests ==
    [ model : Models, messages : Messages, acompletion : BOOLEAN,
      stream : StreamValues, max_retries : RetryValues, api_base : ApiBases,
      api_version : ApiVersions, client : Clients ]

NoRequest ==
    [ model |-> None, messages |-> None, acompletion |-> FALSE,
      stream |-> "absent", max_retries |-> "absent", api_base |-> <<>>,
      api_version |-> None, client |-> None ]

\* Exceptions.  typed: an AzureOpenAIError.  origin: raised by a collaborator
\* ("ext"), raised by the adapter's own raise statements ("adapter"), or built
\* by a generic handler ("wrap").  status_code "no-attr": the exception has no
\* status_code attribute.  response: None, a response object without a headers
\* attribute, or a response object whose headers are "Retry-After: 2".
NoAttr == "no-attr"
RespNone == None
RespNoHeaders == "response-without-headers"
RespWithHeaders == "response-with-headers"

Exc(t, o, s, h, r) ==
    [ typed |-> t, origin |-> o, status_code |-> s, headers |-> h, response |-> r ]

NoExc == Exc(FALSE, "none", NoAttr, None, RespNone)

Exceptions ==
    { Exc(FALSE, "ext", NoAttr, None, RespNone),
      Exc(FALSE, "ext", NoAttr, None, RespNoHeaders),
      Exc(FALSE, "ext", "429", None, RespWithHeaders),
      Exc(FALSE, "ext", "429", "X-Own: 1", RespWithHeaders),
      Exc(FALSE, "ext", "401", None, RespNone),
      Exc(TRUE, "ext", "400", None, RespNone) }

\* What a collaborator call does: return (NoExc) or raise.
Returns == Exceptions \cup {NoExc}

\* Vendor clients.
NoClient == [ builtBy |-> "none", flavor |-> "none", base_url |-> <<>> ]
Handle == [ builtBy |-> "caller", flavor |-> "any", base_url |-> <<"https://", "caller">> ]

NoParams == [ base_url |-> <<>>, max_retries |-> "absent" ]
NoData == [ model |-> None, stream |-> "absent", max_retries |-> "absent" ]

Event(t) == [ type |-> t, client |-> NoClient, data |-> NoData ]
NetworkEvent(c, d) == [ type |-> "network", client |-> c, data |-> d ]

NoOutcome == [ kind |-> "none", model |-> None, provider |-> None,
               stream |-> "none", error |-> NoExc ]
ErrorOutcome(e) == [ NoOutcome EXCEPT !.kind = "error", !.error = e ]

-----------------------------------------------------------------------------
(* Helpers of the handler *)

\* "gateway.ai.cloudflare.com" in api_base
IsGateway(base) == \E i \in 1..Len(base) : base[i] = GatewayHost

\* api_base.endswith("/")
EndsWithSlash(base) == Len(base) > 0 /\ base[Len(base)] = "/"

\* The gateway URL with the "/" appended whether or not one is there.
GatewayBaseUrlAlwaysSlash(base, model) == Append(base, "/") \o <<model>>

\* lines 87-89: if not api_base.endswith("/"): api_base += "/"; api_base += model
GatewayBaseUrl(base, model) ==
    (IF EndsWithSlash(base) THEN base ELSE Append(base, "/")) \o <<model>>

\* dict.pop("max_retries", 2)
PopMaxRetries(v) == IF v = "absent" THEN "int:2" ELSE v

\* `if error_response`: a response object defines neither __bool__ nor
\* __len__, so it is truthy exactly when it is not None.
Truthy(r) == r # RespNone

\* getattr(error_response, "headers", None)
ResponseHeaders(r) == IF r = RespWithHeaders THEN "Retry-After: 2" ELSE None

\* getattr(e, "status_code", 500)
StatusCodeOf(e) == IF e.status_code = NoAttr THEN "500" ELSE e.status_code

\* The headers without the fall back on the nested response.
ErrorHeadersOfNoFallback(e) == e.headers

\* getattr(e, "headers", None), then the fall back on e.response.headers
ErrorHeadersOf(e) ==
    IF e.headers = None /\ Truthy(e.response)
    THEN ResponseHeaders(e.response)
    ELSE e.headers

\* raise AzureOpenAIError(status_code=..., message=str(e), headers=...)
WrapException(e) ==
    Exc(TRUE, "wrap", StatusCodeOf(e), ErrorHeadersOf(e), RespNone)

\* except AzureOpenAIError: raise e / except Exception: wrap   (completion)
completion_except(e) == IF e.typed THEN e ELSE WrapException(e)

\* the same two handlers in acompletion
acompletion_except(e) == IF e.typed THEN e ELSE WrapException(e)

\* async_streaming has the single handler `except Exception`
async_streaming_except(e) == WrapException(e)

\* raise AzureOpenAIError(status_code=422, ...)
Error422 == Exc(TRUE, "adapter", "422", None, RespNone)

\* The validation with the messages forgotten.
MissingInputModelOnly(r) == r.model = None

\* model is None or messages is None
MissingInput(r) == r.model = None \/ r.messages = None

\* An assignment in place of setdefault.
SetApiVersionOverwrite(q, version) ==
    IF version # None /\ q # NotADict THEN version ELSE q

\* _custom_query.setdefault("api-version", api_version), guarded by
\* api_version is not None and isinstance(_custom_query, dict)
SetDefaultApiVersion(q, version) ==
    IF version # None /\ q # NotADict
    THEN (IF q = Absent THEN version ELSE q)
    ELSE q

\* optional_params.get("stream", False) is truthy
AsyncWantsStream(s) == s \in {"True", "truthy"}

\* "stream" in optional_params and optional_params["stream"] is True
SyncWantsStream(s) == s = "True"

\* The path completion() dispatches to (lines 116-158).
Dispatch(r) ==
    IF r.acompletion
    THEN (IF AsyncWantsStream(r.stream) THEN "async_streaming" ELSE "acompletion")
    ELSE (IF SyncWantsStream(r.stream) THEN "streaming" ELSE "sync")

-----------------------------------------------------------------------------
(* The state machine *)

Init ==
    /\ pc = "idle"
    /\ req = NoRequest
    /\ max_retries = "absent"
    /\ api_base = <<>>
    /\ azure_client_params = NoParams
    /\ client = NoClient
    /\ data = NoData
    /\ events = <<>>
    /\ raised = NoExc
    /\ outcome = NoOutcome
    /\ custom_query \in InitialQueries
    /\ calls = 0
    /\ initQuery = custom_query
    /\ firstVersion = "no-call"
    /\ firstReached = "no-call"

\* An exception e leaves the call; the caller observes `observed`.
Fail(e, observed) ==
    /\ raised' = e
    /\ outcome' = ErrorOutcome(observed)
    /\ pc' = "done"

\* The vendor constructor applied to azure_client_params.
BuiltClient(flavor, params) ==
    [ builtBy |-> "adapter", flavor |-> flavor, base_url |-> params.base_url ]

\* (In the three operators below, x is what the collaborator does and
\* observed is what the path's handler makes of x when x is an exception.)
\* The client set-up shared by the four paths (lines 178-188, 243-251,
\* 302-308, 347-355): build a client when none is at hand, else reuse the one
\* at hand and set its api-version if absent.  Only the caller's handle
\* carries the shared _custom_query.
UseClient(x, flavor, observed, next) ==
    IF client = NoClient
    THEN /\ IF x # NoExc
            THEN /\ Fail(x, observed)
                 /\ UNCHANGED client
            ELSE /\ client' = BuiltClient(flavor, azure_client_params)
                 /\ pc' = next
                 /\ UNCHANGED <<raised, outcome>>
         /\ UNCHANGED <<custom_query, firstReached>>
    ELSE /\ custom_query' =
                IF client.builtBy = "caller"
                THEN SetDefaultApiVersion(custom_query, req.api_version)
                ELSE custom_query
         /\ firstReached' =
                IF /\ client.builtBy = "caller"
                   /\ req.api_version # None
                   /\ firstReached = "no-call"
                THEN req.api_version
                ELSE firstReached
         /\ pc' = next
         /\ UNCHANGED <<client, raised, outcome>>

\* logging_obj.pre_call(...)
PreCall(x, observed, next) ==
    IF x # NoExc
    THEN /\ Fail(x, observed)
         /\ UNCHANGED events
    ELSE /\ events' = Append(events, Event("pre_call"))
         /\ pc' = next
         /\ UNCHANGED <<raised, outcome>>

StreamWrapper(model) ==
    [ NoOutcome EXCEPT !.kind = "wrapper", !.model = model,
                       !.provider = "azure_text", !.stream = "unconsumed" ]

NormalizedResponse == [ NoOutcome EXCEPT !.kind = "response" ]

\* completion(), lines 42-69: the call arrives, the inputs are validated and
\* max_retries is popped from optional_params.  limit: the number of calls
\* of a run.
completion_entry(r, limit) ==
    /\ pc = "idle"
    /\ calls < limit
    /\ calls' = calls + 1
    /\ req' = r
    /\ api_base' = r.api_base
    /\ client' = IF r.client = None THEN NoClient ELSE Handle
    /\ azure_client_params' = NoParams
    /\ data' = NoData
    /\ events' = <<>>
    /\ IF MissingInput(r)
       THEN /\ Fail(Error422, completion_except(Error422))
            /\ max_retries' = "absent"
       ELSE /\ max_retries' = PopMaxRetries(r.max_retries)
            /\ pc' = "prepare"
            /\ raised' = NoExc
            /\ outcome' = NoOutcome
    /\ UNCHANGED <<custom_query, histVars>>

\* completion(), lines 70-80: prompt_factory and initialize_azure_sdk_client.
completion_prepare(x) ==
    /\ pc = "prepare"
    /\ IF x # NoExc
       THEN /\ Fail(x, completion_except(x))
            /\ UNCHANGED azure_client_params
       ELSE /\ azure_client_params' =
                  [ base_url |-> api_base, max_retries |-> "int:2" ]
            /\ pc' = "gateway"
            /\ UNCHANGED <<raised, outcome>>
    /\ UNCHANGED <<req, max_retries, api_base, client, data, events,
                   custom_query, calls, histVars>>

\* The request payload: {"model": ..., "prompt": prompt, **optional_params},
\* built after max_retries was popped from optional_params.
Payload(model, r) ==
    [ model |-> model, stream |-> r.stream, max_retries |-> "absent" ]

\* The payload of a call to a gateway endpoint (line 108).
GatewayPayload(r) == Payload(None, r)

\* completion(), lines 84-157: the gateway rewrite, the payload, the dispatch.
completion_gateway(x) ==
    /\ pc = "gateway"
    /\ LET gw == IsGateway(api_base)
           build == gw /\ client = NoClient
           url == GatewayBaseUrl(api_base, req.model)
           params == [ base_url |-> url, max_retries |-> max_retries ]
           flavor == IF req.acompletion THEN "async" ELSE "sync"
       IN IF build /\ x # NoExc
          THEN /\ Fail(x, completion_except(x))
               /\ api_base' = url
               /\ azure_client_params' = params
               /\ UNCHANGED <<client, data, firstVersion>>
          ELSE /\ firstVersion' =
                     IF /\ req.client # None
                        /\ req.api_version # None
                        /\ firstVersion = "no-call"
                     THEN req.api_version
                     ELSE firstVersion
               /\ api_base' = IF build THEN url ELSE api_base
               /\ azure_client_params' = IF build THEN params ELSE azure_client_params
               /\ client' = IF build THEN BuiltClient(flavor, params) ELSE client
               /\ data' = IF gw THEN GatewayPayload(req) ELSE Payload(req.model, req)
               /\ pc' = Dispatch(req)
               /\ UNCHANGED <<raised, outcome>>
    /\ UNCHANGED <<req, max_retries, events, custom_query, calls, initQuery,
                   firstReached>>

\* The synchronous path with its pre-call logging left out.
completion_pre_call_skipped(x) ==
    /\ pc = "sync"
    /\ pc' = "sync_init_client"
    /\ UNCHANGED <<callVars, client, events, raised, outcome, custom_query,
                   calls, histVars>>

\* completion(), lines 160-172: pre-call logging of the synchronous path.
completion_pre_call(x) ==
    /\ pc = "sync"
    /\ PreCall(x, completion_except(x), "sync_init_client")
    /\ UNCHANGED <<callVars, client, custom_query, calls, histVars>>

\* completion(), lines 173-188: the retry-count check and the client set-up.
completion_init_client(x) ==
    /\ pc = "sync_init_client"
    /\ IF ~IsInt(max_retries)
       THEN /\ Fail(Error422, completion_except(Error422))
            /\ UNCHANGED <<client, custom_query, firstReached>>
       ELSE UseClient(x, "sync", completion_except(x), "sync_network_call")
    /\ UNCHANGED <<callVars, events, calls, initQuery, firstVersion>>

\* completions.with_raw_response.create(**data), parse(), and what the path
\* does with the parsed response before it returns.  What the vendor client
\* returns is opaque to the adapter: the call either raises or returns.
NetworkCall(x, observed, after, result, next) ==
    IF x # NoExc
    THEN /\ Fail(x, observed)
         /\ UNCHANGED events
    ELSE /\ events' = Append(events, NetworkEvent(client, data)) \o after
         /\ outcome' = result
         /\ pc' = next
         /\ UNCHANGED raised

\* completion(), lines 190-194: the network call of the synchronous path.
completion_network_call(x) ==
    /\ pc = "sync_network_call"
    /\ NetworkCall(x, completion_except(x), <<>>, NoOutcome, "sync_post_call")
    /\ UNCHANGED <<callVars, client, custom_query, calls, histVars>>

\* completion(), lines 196-211: post-call logging, normalization, return.
completion_post_call(x) ==
    /\ pc = "sync_post_call"
    /\ IF x # NoExc
       THEN /\ Fail(x, completion_except(x))
            /\ UNCHANGED events
       ELSE /\ events' = events \o <<Event("post_call"), Event("normalize")>>
            /\ outcome' = NormalizedResponse
            /\ pc' = "done"
            /\ UNCHANGED raised
    /\ UNCHANGED <<callVars, client, custom_query, calls, histVars>>

\* streaming(), lines 296-308, called inside completion()'s try.
streaming_init_client(x) ==
    /\ pc = "streaming"
    /\ IF ~IsInt(PopMaxRetries(data.max_retries))
       THEN /\ Fail(Error422, completion_except(Error422))
            /\ UNCHANGED <<client, custom_query, firstReached>>
       ELSE UseClient(x, "sync", completion_except(x), "streaming_pre_call")
    /\ UNCHANGED <<callVars, events, calls, initQuery, firstVersion>>

\* streaming(), lines 310-319.
streaming_pre_call(x) ==
    /\ pc = "streaming_pre_call"
    /\ PreCall(x, completion_except(x), "streaming_network_call")
    /\ UNCHANGED <<callVars, client, custom_query, calls, histVars>>

\* streaming(), lines 320-330.
streaming_network_call(x) ==
    /\ pc = "streaming_network_call"
    /\ NetworkCall(x, completion_except(x), <<Event("wrap")>>,
                   StreamWrapper(req.model), "done")
    /\ UNCHANGED <<callVars, client, custom_query, calls, histVars>>

\* acompletion(), lines 243-251.
acompletion_init_client(x) ==
    /\ pc = "acompletion"
    /\ UseClient(x, "async", acompletion_except(x), "acompletion_pre_call")
    /\ UNCHANGED <<callVars, events, calls, initQuery, firstVersion>>

\* acompletion(), lines 253-262.
acompletion_pre_call(x) ==
    /\ pc = "acompletion_pre_call"
    /\ PreCall(x, acompletion_except(x), "acompletion_network_call")
    /\ UNCHANGED <<callVars, client, custom_query, calls, histVars>>

\* acompletion(), lines 263-270: no post-call logging on this path.
acompletion_network_call(x) ==
    /\ pc = "acompletion_network_call"
    /\ NetworkCall(x, acompletion_except(x), <<Event("normalize")>>,
                   NormalizedResponse, "done")
    /\ UNCHANGED <<callVars, client, custom_query, calls, histVars>>

\* async_streaming(), lines 347-355.
async_streaming_init_client(x) ==
    /\ pc = "async_streaming"
    /\ UseClient(x, "async", async_streaming_except(x), "async_streaming_pre_call")
    /\ UNCHANGED <<callVars, events, calls, initQuery, firstVersion>>

\* async_streaming(), lines 357-366.
async_streaming_pre_call(x) ==
    /\ pc = "async_streaming_pre_call"
    /\ PreCall(x, async_streaming_except(x), "async_streaming_network_call")
    /\ UNCHANGED <<callVars, client, custom_query, calls, histVars>>

\* async_streaming(), lines 367-378.
async_streaming_network_call(x) ==
    /\ pc = "async_streaming_network_call"
    /\ NetworkCall(x, async_streaming_except(x), <<Event("wrap")>>,
                   StreamWrapper(req.model), "done")
    /\ UNCHANGED <<callVars, client, custom_query, calls, histVars>>

\* The call has ended: the caller holds the result or the error, the locals
\* of the call are gone, and only the shared handle keeps its state.
completion_return ==
    /\ pc = "done"
    /\ pc' = "idle"
    /\ req' = NoRequest
    /\ max_retries' = "absent"
    /\ api_base' = <<>>
    /\ azure_client_params' = NoParams
    /\ client' = NoClient
    /\ data' = NoData
    /\ events' = <<>>
    /\ raised' = NoExc
    /\ outcome' = NoOutcome
    /\ UNCHANGED <<custom_query, calls, histVars>>

\* The steps of a call after its entry, the collaborators' returns drawn from R.
Steps(R) ==
    \/ \E x \in R : completion_prepare(x)
    \/ \E x \in R : completion_gateway(x)
    \/ \E x \in R : completion_pre_call(x)
    \/ \E x \in R : completion_init_client(x)
    \/ \E x \in R : completion_network_call(x)
    \/ \E x \in R : completion_post_call(x)
    \/ \E x \in R : streaming_init_client(x)
    \/ \E x \in R : streaming_pre_call(x)
    \/ \E x \in R : streaming_network_call(x)
    \/ \E x \in R : acompletion_init_client(x)
    \/ \E x \in R : acompletion_pre_call(x)
    \/ \E x \in R : acompletion_network_call(x)
    \/ \E x \in R : async_streaming_init_client(x)
    \/ \E x \in R : async_streaming_pre_call(x)
    \/ \E x \in R : async_streaming_network_call(x)
    \/ completion_return

\* One call, with any arguments and any behaviour of the collaborators, on a
\* handle in any of its initial states.  A call reads nothing an earlier call
\* left behind but the handle's _custom_query, which Init draws from all its
\* kinds of value.
Next ==
    \/ \E r \in Requests : completion_entry(r, 1)
    \/ Steps(Returns)

Spec == Init /\ [][Next]_vars

\* A sequence of calls sharing the handle.  What a call does to the handle
\* depends on how far it gets, not on which exception stops it nor on the
\* shape of the payload: one exception and two values of each option stand
\* for the rest.
SharedRequests ==
    { r \in Requests :
        /\ r.messages # None
        /\ r.stream \in {"absent", "True"}
        /\ r.max_retries \in {"absent", "str:two"}
        /\ ~EndsWithSlash(r.api_base) }

SharedReturns == { NoExc, Exc(FALSE, "ext", NoAttr, None, RespNone) }

NextShared ==
    \/ \E r \in SharedRequests : completion_entry(r, MaxCalls)
    \/ Steps(SharedReturns)

SpecShared == Init /\ [][NextShared]_vars

-----------------------------------------------------------------------------
(* Properties *)

Done == pc = "done"

EventTypes == [ i \in DOMAIN events |-> events[i].type ]
Has(t) == \E i \in DOMAIN events : events[i].type = t
Succeeded == outcome.kind \in {"response", "wrapper"}
Failed == outcome.kind = "error"
InputPresent == req.model # None /\ req.messages # None

\* C1: a call in which an exception other than the adapter's typed error was
\* raised ends with the typed error; its status_code is the exception's, or
\* 500 when the exception has none; its headers are the exception's, else
\* those of the exception's nested response, else None.
C1_RawExceptionsAreNormalized ==
    (Done /\ raised # NoExc /\ ~raised.typed) =>
        /\ Failed
        /\ outcome.error.typed
        /\ outcome.error.status_code =
              (IF raised.status_code = NoAttr THEN "500" ELSE raised.status_code)
        /\ outcome.error.headers =
              (IF raised.headers # None THEN raised.headers
               ELSE IF raised.response = RespWithHeaders THEN "Retry-After: 2"
               ELSE None)

\* C1 witness: on the asynchronous streaming path the network call raised an
\* exception with status_code 429, no headers and a response with headers.
C1_Witness ==
    /\ Done
    /\ req.acompletion /\ req.stream = "True"
    /\ EventTypes = <<"pre_call">>
    /\ raised = Exc(FALSE, "ext", "429", None, RespWithHeaders)
    /\ outcome.error = Exc(TRUE, "wrap", "429", "Retry-After: 2", RespNone)

\* C2: a typed error raised inside a call reaches the caller as the very
\* same error, on each of the four paths.
C2_TypedErrorNeverRewrapped ==
    (Done /\ raised.typed) => (Failed /\ outcome.error = raised)

\* C3: a call without model or without messages fails with the typed error
\* of status 422; it logs nothing, builds no client, makes no network call.
C3_MissingInputIs422 ==
    (Done /\ (req.model = None \/ req.messages = None)) =>
        /\ Failed
        /\ outcome.error.typed
        /\ outcome.error.status_code = "422"
        /\ events = <<>>
        /\ client.builtBy # "adapter"

\* C3 witness: an asynchronous streaming call to a gateway endpoint, with a
\* non-integer retry count and without messages, has ended with 422.
C3_Witness ==
    /\ Done
    /\ req.model # None /\ req.messages = None
    /\ req.acompletion /\ req.stream = "True"
    /\ IsGateway(req.api_base) /\ req.max_retries = "str:two"
    /\ outcome.error.status_code = "422"

\* C4: a synchronous call whose max_retries is not an integer issues no
\* network call and fails, with status 422 unless a collaborator raised
\* before the check was reached; streaming or not.
C4_NonIntRetriesIs422 ==
    (Done /\ ~req.acompletion /\ InputPresent /\ req.max_retries = "str:two") =>
        /\ ~Has("network")
        /\ Failed
        /\ (raised.origin = "adapter" => outcome.error.status_code = "422")

\* C5 (as stated): after every call dispatched to one of the four paths with
\* the handle and an explicit api_version, a handle that held an api-version
\* holds it still, and a handle that held none holds the api_version of the
\* first such call.
C5_FirstCallSetsVersion ==
    Done =>
        /\ (initQuery \notin {Absent, NotADict} => custom_query = initQuery)
        /\ (initQuery = Absent /\ firstVersion # "no-call"
               => custom_query = firstVersion)

\* C5 (amended): a handle that held an api-version holds it forever; a
\* handle that held none holds none until a call with the handle and an
\* explicit api_version reaches the client set-up, and from then on holds
\* that call's api_version, whatever later calls pass.
C5_SetIfAbsent ==
    /\ (initQuery \notin {Absent, NotADict} => custom_query = initQuery)
    /\ (initQuery = Absent =>
           custom_query =
              (IF firstReached = "no-call" THEN Absent ELSE firstReached))

\* C5 witness: the second call passed the handle and another api_version,
\* went through the client set-up and the network call, and the handle still
\* holds the first call's version.
C5_Witness ==
    /\ Done /\ Succeeded
    /\ calls = 2
    /\ req.client # None
    /\ initQuery = Absent
    /\ firstReached = "2024-01-01"
    /\ req.api_version = "2024-02-01"
    /\ custom_query = "2024-01-01"

\* C6: the network call of a call to a gateway endpoint without a client
\* handle is made by a client whose base URL is the endpoint, one "/", the
\* model, with a payload whose model is None; the payload of a call to any
\* other endpoint carries the requested model.
C6_GatewayRewrite ==
    \A i \in DOMAIN events :
        events[i].type = "network" =>
            LET e == req.api_base
                stem == IF e[Len(e)] = "/" THEN SubSeq(e, 1, Len(e) - 1) ELSE e
            IN /\ (IsGateway(e) /\ req.client = None) =>
                     /\ events[i].client.base_url = stem \o <<"/", req.model>>
                     /\ events[i].data.model = None
               /\ ~IsGateway(e) => events[i].data.model = req.model

\* C6 witness: an asynchronous streaming call to a gateway endpoint ending in
\* "/" has made its network call through the client the adapter built.
C6_Witness ==
    /\ Done /\ outcome.kind = "wrapper" /\ req.acompletion
    /\ req.client = None
    /\ req.api_base = <<"https://", GatewayHost, "/", "acct", "/">>
    /\ Has("network")
    /\ client = [ builtBy |-> "adapter", flavor |-> "async",
                  base_url |-> <<"https://", GatewayHost, "/", "acct", "/", "gpt-3">> ]

\* C7: a successful call yields the stream wrapper (tagged with the model and
\* the provider, its stream unconsumed) when stream is truthy, and the
\* normalized response when stream is absent or false; synchronous or not.
C7_StreamOptionDecidesResult ==
    (Done /\ Succeeded) =>
        IF req.stream \in {"True", "truthy"}
        THEN outcome = [ NoOutcome EXCEPT !.kind = "wrapper", !.model = req.model,
                                          !.provider = "azure_text",
                                          !.stream = "unconsumed" ]
        ELSE outcome.kind = "response"

\* C8: within a call the pre-call log event precedes the network call, the
\* post-call log event and the normalization follow it, and a call that
\* fails emits no post-call log event and yields no result.
C8_EventOrder ==
    /\ \A i \in DOMAIN events :
          /\ events[i].type = "network" =>
                \E j \in 1..(i - 1) : events[j].type = "pre_call"
          /\ events[i].type \in {"post_call", "normalize", "wrap"} =>
                \E j \in 1..(i - 1) : events[j].type = "network"
    /\ Succeeded => Has("network")
    /\ (raised # NoExc) =>
          /\ ~Succeeded
          /\ ~Has("post_call") /\ ~Has("normalize") /\ ~Has("wrap")

\* C8 witness: a synchronous non-streaming call has returned after its four
\* events.
C8_Witness ==
    /\ Done /\ outcome.kind = "response" /\ ~req.acompletion
    /\ EventTypes = <<"pre_call", "network", "post_call", "normalize">>

\* C9: a successful non-streaming call, asynchronous or synchronous, emits
\* one pre-call log event, makes the network call, emits one post-call log
\* event, and then returns the normalized response.
C9_AsyncLikeSync ==
    (Done /\ outcome.kind = "response") =>
        EventTypes = <<"pre_call", "network", "post_call", "normalize">>

\* C10: the payload of a network call has model None only if the adapter
\* built the client, with a base URL ending in the model; otherwise its model
\* is the requested model.
C10_ModelNeverDropped ==
    \A i \in DOMAIN events :
        events[i].type = "network" =>
            LET c == events[i].client
                d == events[i].data
            IN IF d.model = None
               THEN /\ c.builtBy = "adapter"
                    /\ Len(c.base_url) > 0
                    /\ c.base_url[Len(c.base_url)] = req.model
               ELSE d.model = req.model

====
